---- MODULE Spec2Model ----
(***************************************************************************)
(* Model of numan.py: fixed-point and Newton-Raphson iteration (fp, nr),   *)
(* the quadrature rules lr, rr, mr, t, s and the forward-Euler stepper e.  *)
(*                                                                         *)
(* Numbers.  The routines compute in Python floats (IEEE 754 binary64:     *)
(* every +, -, *, / is the exact result rounded to nearest, ties to even). *)
(* The model keeps that arithmetic and scales the significand down from 53 *)
(* to Prec bits; the exponent range is not limited (the inputs are small). *)
(* A value is a record [n, d, ix]: the rational n/d in lowest terms with   *)
(* d > 0, and ix, the IEEE 754 "inexact" status accumulated over the       *)
(* operations that produced the value (TRUE iff one of them rounded).      *)
(* Numeric arguments (a, b, x0, lim) are floats, counts (n) are integers.  *)
(***************************************************************************)
EXTENDS Integers, Sequences, FiniteSets, TLC

\* ------------------------------------------------------------- bounds
\* significand bits of the modelled float format
Prec == 5
\* a, b, x0 range over the integer-valued floats -MaxAbs .. MaxAbs
MaxAbs == 3
\* n ranges over 0 .. MaxN
MaxN == 6
\* lim ranges over 2^0 .. 2^-MaxLimExp
MaxLimExp == 2
\* the iterations an unbounded loop is followed for
MaxSteps == 5
\* the Euler stepper's a, b range over 0 .. MaxB
MaxB == 2

\* ------------------------------------------------- float arithmetic
Abs(k) == IF k < 0 THEN -k ELSE k

RECURSIVE GCD(_, _)
GCD(p, q) == IF q = 0 THEN p ELSE GCD(q, p % q)

RECURSIVE Pow2(_)
Pow2(k) == IF k = 0 THEN 1 ELSE 2 * Pow2(k - 1)

\* <<p, q, ex>> with p/q * 2^ex the given positive p/q and
\* 2^(Prec-1) <= p/q < 2^Prec
RECURSIVE Scale(_, _, _)
Scale(p, q, ex) ==
    IF p \div Pow2(Prec - 1) < q
    THEN IF q % 2 = 0 THEN Scale(p, q \div 2, ex - 1)
         ELSE Scale(2 * p, q, ex - 1)
    ELSE IF p \div Pow2(Prec) >= q
    THEN IF p % 2 = 0 THEN Scale(p \div 2, q, ex + 1)
         ELSE Scale(p, 2 * q, ex + 1)
    ELSE <<p, q, ex>>

\* the significand of a scaled <<p, q, ex>> rounded to an integer, round to
\* nearest, ties to even
Nearest(quo, rem, q) ==
    IF 2 * rem > q \/ (2 * rem = q /\ quo % 2 = 1) THEN quo + 1 ELSE quo

\* sig * 2^ex as <<numerator, denominator>> in lowest terms
Dyadic(sig, ex, g) ==
    IF ex >= 0 THEN <<sig * Pow2(ex), 1>> ELSE <<sig \div g, Pow2(-ex) \div g>>

Lowest(sig, ex) == Dyadic(sig, ex, IF ex >= 0 THEN 1 ELSE GCD(sig, Pow2(-ex)))

RoundScaled(sc) == Lowest(Nearest(sc[1] \div sc[2], sc[1] % sc[2], sc[2]), sc[3])

\* the positive rational p/q rounded to Prec significant bits
RoundPos(p, q) == RoundScaled(Scale(p, q, 0))

\* r, the rounded p/q, with its sign; inexact iff r is not p/q in lowest terms
Signed(sg, p, q, ix, r, g) ==
    [n |-> sg * r[1], d |-> r[2], ix |-> ix \/ r # <<p \div g, q \div g>>]

\* the float nearest to num/den (den # 0), with the inexact status
fl(num, den, ix) ==
    IF num = 0 THEN [n |-> 0, d |-> 1, ix |-> ix]
    ELSE Signed(IF (num < 0) = (den < 0) THEN 1 ELSE -1, Abs(num), Abs(den), ix,
                RoundPos(Abs(num), Abs(den)), GCD(Abs(num), Abs(den)))

\* an int converted to float: exact, the ints converted are below 2^Prec
I(k) == [n |-> k, d |-> 1, ix |-> FALSE]

\* the literal 0.5
Half == [n |-> 1, d |-> 2, ix |-> FALSE]

\* the denominators of floats are powers of two: the larger is a common one
Common(x, y) == IF x.d >= y.d THEN x.d ELSE y.d

fadd(x, y) ==
    fl(x.n * (Common(x, y) \div x.d) + y.n * (Common(x, y) \div y.d),
       Common(x, y), x.ix \/ y.ix)
fsub(x, y) ==
    fl(x.n * (Common(x, y) \div x.d) - y.n * (Common(x, y) \div y.d),
       Common(x, y), x.ix \/ y.ix)
fmul(x, y) == fl(x.n * y.n, x.d * y.d, x.ix \/ y.ix)
\* y # 0: Python raises ZeroDivisionError otherwise
fdiv(x, y) == fl(x.n * y.d, x.d * y.n, x.ix \/ y.ix)
fabs(x) == [x EXCEPT !.n = Abs(x.n)]
fneg(x) == [x EXCEPT !.n = -x.n]
IsZero(x) == x.n = 0
\* x < y, x >= y, x = y as numbers
Lt(x, y) == x.n * y.d < y.n * x.d
Ge(x, y) == ~Lt(x, y)
NumEq(x, y) == x.n = y.n /\ x.d = y.d

\* ------------------------------------------------- caller's callables
\* The callables a caller passes as m (and dm), by name.
\*   one: lambda x: 1        id: lambda x: x        sq: lambda x: x*x
\*   neg: lambda x: -x       half: lambda x: x*0.5  inc: lambda x: x+1
\*   avg1: lambda x: (x+1)*0.5
\*   sqm2: lambda x: x*x-2   sqm1: lambda x: x*x-1  sqp1: lambda x: x*x+1
\*   lin: lambda x: x-1      twox: lambda x: 2*x    zero: lambda x: 0
Apply(m, x) ==
    CASE m = "one" -> I(1)
      [] m = "zero" -> I(0)
      [] m = "id" -> x
      [] m = "sq" -> fmul(x, x)
      [] m = "neg" -> fneg(x)
      [] m = "half" -> fmul(x, Half)
      [] m = "inc" -> fadd(x, I(1))
      [] m = "avg1" -> fmul(fadd(x, I(1)), Half)
      [] m = "sqm2" -> fsub(fmul(x, x), I(2))
      [] m = "sqm1" -> fsub(fmul(x, x), I(1))
      [] m = "sqp1" -> fadd(fmul(x, x), I(1))
      [] m = "lin" -> fsub(x, I(1))
      [] m = "twox" -> fmul(I(2), x)

\* ------------------------------------------------- what a call yields
NoValue == [kind |-> "none", val |-> I(0), rows |-> <<>>, msg |-> ""]
Return(v) == [kind |-> "float", val |-> v, rows |-> <<>>, msg |-> ""]
ReturnTable(tb) == [kind |-> "table", val |-> I(0), rows |-> tb, msg |-> ""]
ReturnStr(txt) == [kind |-> "str", val |-> I(0), rows |-> <<>>, msg |-> txt]
Raise(exc) == [kind |-> "raise", val |-> I(0), rows |-> <<>>, msg |-> exc]

\* ------------------------------------------------- quadrature rules
\* Python list indices are kept: x and y have domain 0 .. n.
\* lr with the loop running over range(0, n+1): one rectangle too many
lr_extra(m, a, b, n) ==
    IF n = 0 THEN Raise("ZeroDivisionError") ELSE
    LET h == fdiv(fsub(b, a), I(n))
        x == [i \in 0..n |-> fadd(a, fmul(I(i), h))]
        y == [i \in 0..n |-> Apply(m, x[i])]
        RECURSIVE loop(_, _)
        loop(i, total) ==
            IF i >= n + 1 THEN total
            ELSE loop(i + 1, fadd(total, fmul(y[i], h)))
    IN  Return(loop(0, I(0)))

lr(m, a, b, n) ==
    IF n = 0 THEN Raise("ZeroDivisionError") ELSE
    LET h == fdiv(fsub(b, a), I(n))
        x == [i \in 0..n |-> fadd(a, fmul(I(i), h))]
        y == [i \in 0..n |-> Apply(m, x[i])]
        RECURSIVE loop(_, _)
        loop(i, total) ==
            IF i >= n THEN total
            ELSE loop(i + 1, fadd(total, fmul(y[i], h)))
    IN  Return(loop(0, I(0)))

rr(m, a, b, n) ==
    IF n = 0 THEN Raise("ZeroDivisionError") ELSE
    LET h == fdiv(fsub(b, a), I(n))
        x == [i \in 0..n |-> fadd(a, fmul(I(i), h))]
        y == [i \in 0..n |-> Apply(m, x[i])]
        RECURSIVE loop(_, _)
        loop(i, total) ==
            IF i >= n + 1 THEN total
            ELSE loop(i + 1, fadd(total, fmul(y[i], h)))
    IN  Return(loop(1, I(0)))

mr(m, a, b, n) ==
    IF n = 0 THEN Raise("ZeroDivisionError") ELSE
    LET h == fdiv(fsub(b, a), I(n))
        x == [i \in 0..n |-> fadd(a, fmul(I(i), h))]
        x_mid == [i \in 0..(n - 1) |-> fdiv(fadd(x[i], x[i + 1]), I(2))]
        y_mid == [i \in 0..(n - 1) |-> Apply(m, x_mid[i])]
        RECURSIVE loop(_, _)
        loop(i, total) ==
            IF i >= n THEN total
            ELSE loop(i + 1, fadd(total, fmul(y_mid[i], h)))
    IN  Return(loop(0, I(0)))

\* t with y[i] + y[i] for y[i] + y[i-1]
t_same(m, a, b, n) ==
    IF n = 0 THEN Raise("ZeroDivisionError") ELSE
    LET h == fdiv(fsub(b, a), I(n))
        x == [i \in 0..n |-> fadd(a, fmul(I(i), h))]
        y == [i \in 0..n |-> Apply(m, x[i])]
        RECURSIVE loop(_, _)
        loop(i, total) ==
            IF i >= n + 1 THEN total
            ELSE loop(i + 1, fadd(total, fmul(fmul(h, Half),
                                              fadd(y[i], y[i]))))
    IN  Return(loop(1, I(0)))

t(m, a, b, n) ==
    IF n = 0 THEN Raise("ZeroDivisionError") ELSE
    LET h == fdiv(fsub(b, a), I(n))
        x == [i \in 0..n |-> fadd(a, fmul(I(i), h))]
        y == [i \in 0..n |-> Apply(m, x[i])]
        RECURSIVE loop(_, _)
        loop(i, total) ==
            IF i >= n + 1 THEN total
            ELSE loop(i + 1, fadd(total, fmul(fmul(h, Half),
                                              fadd(y[i], y[i - 1]))))
    IN  Return(loop(1, I(0)))

SimpsonError == "Error: n must be an even number for Simpson's rule"

\* s with the parity test dropped: n // 2 pairs whatever n is
s_anyn(m, a, b, n) ==
    IF n = 0 THEN Raise("ZeroDivisionError") ELSE
    LET h == fdiv(fsub(b, a), I(n))
        x == [i \in 0..n |-> fadd(a, fmul(I(i), h))]
        y == [i \in 0..n |-> Apply(m, x[i])]
        RECURSIVE loop(_, _)
        loop(i, total) ==
            IF i >= (n \div 2) + 1 THEN total
            ELSE loop(i + 1,
                      fadd(total,
                           fmul(fdiv(h, I(3)),
                                fadd(fadd(y[2 * i - 2], fmul(I(4), y[2 * i - 1])),
                                     y[2 * i]))))
    IN  Return(loop(1, I(0)))

s(m, a, b, n) ==
    IF n = 0 THEN Raise("ZeroDivisionError") ELSE
    LET h == fdiv(fsub(b, a), I(n))
        x == [i \in 0..n |-> fadd(a, fmul(I(i), h))]
        y == [i \in 0..n |-> Apply(m, x[i])]
        RECURSIVE loop(_, _)
        loop(i, total) ==
            IF i >= (n \div 2) + 1 THEN total
            ELSE loop(i + 1,
                      fadd(total,
                           fmul(fdiv(h, I(3)),
                                fadd(fadd(y[2 * i - 2], fmul(I(4), y[2 * i - 1])),
                                     y[2 * i]))))
    IN  IF n % 2 = 0 THEN Return(loop(1, I(0)))
        ELSE ReturnStr(SimpsonError)

\* ------------------------------------------------- state
\* fn: the routine called; m, dm, a, b, x0, n, lim: its arguments;
\* tab, sol, count, spec_tab, h, k: the routine's locals (k the loop
\* variable's next value); pc: where the call is; ret: what it yielded.
VARIABLES fn, m, dm, a, b, x0, n, lim, pc, tab, sol, count, spec_tab, h, k, ret

vars == <<fn, m, dm, a, b, x0, n, lim, pc, tab, sol, count, spec_tab, h, k, ret>>
args == <<fn, m, dm, a, b, x0, n, lim>>

Floats == {I(i) : i \in -MaxAbs..MaxAbs}
Lims == {[n |-> 1, d |-> Pow2(j), ix |-> FALSE] : j \in 0..MaxLimExp}
QuadRules == {"lr", "rr", "mr", "t", "s"}
QuadMaps == {"one", "id", "sq"}
FpMaps == {"half", "avg1", "neg", "inc", "id"}
NrPairs == {<<"sqm2", "twox">>, <<"sq", "twox">>, <<"sqp1", "twox">>,
            <<"sqm1", "twox">>, <<"lin", "one">>}
EMaps == {"id", "neg", "one"}

NoLocals ==
    /\ tab = <<>>
    /\ sol = I(0)
    /\ count = 0
    /\ spec_tab = <<>>
    /\ h = I(0)
    /\ k = 0
    /\ ret = NoValue
    /\ pc = "call"

\* a call of one of the quadrature rules
InitQuad ==
    /\ fn \in QuadRules
    /\ m \in QuadMaps
    /\ dm = "zero"
    /\ a \in Floats
    /\ b \in Floats
    /\ x0 = I(0)
    /\ n \in 0..MaxN
    /\ lim = I(1)
    /\ NoLocals

\* a call of fp, nr or e
InitIter ==
    /\ \/ /\ fn = "fp"
          /\ m \in FpMaps
          /\ dm = "zero"
          /\ a = I(0)
          /\ b = I(0)
          /\ lim \in Lims
       \/ /\ fn = "nr"
          /\ \E pr \in NrPairs : m = pr[1] /\ dm = pr[2]
          /\ a = I(0)
          /\ b = I(0)
          /\ lim \in Lims
       \/ /\ fn = "e"
          /\ m \in EMaps
          /\ dm = "zero"
          /\ a \in {I(i) : i \in 0..MaxB}
          /\ b \in {I(i) : i \in 0..MaxB}
          /\ lim = I(1)
    /\ x0 \in Floats
    /\ n \in 0..MaxN
    /\ NoLocals

\* ------------------------------------------------- quadrature calls
call_lr ==
    /\ pc = "call" /\ fn = "lr"
    /\ ret' = lr(m, a, b, n)
    /\ pc' = "done"
    /\ UNCHANGED <<args, tab, sol, count, spec_tab, h, k>>

call_rr ==
    /\ pc = "call" /\ fn = "rr"
    /\ ret' = rr(m, a, b, n)
    /\ pc' = "done"
    /\ UNCHANGED <<args, tab, sol, count, spec_tab, h, k>>

call_mr ==
    /\ pc = "call" /\ fn = "mr"
    /\ ret' = mr(m, a, b, n)
    /\ pc' = "done"
    /\ UNCHANGED <<args, tab, sol, count, spec_tab, h, k>>

call_t ==
    /\ pc = "call" /\ fn = "t"
    /\ ret' = t(m, a, b, n)
    /\ pc' = "done"
    /\ UNCHANGED <<args, tab, sol, count, spec_tab, h, k>>

call_s ==
    /\ pc = "call" /\ fn = "s"
    /\ ret' = s(m, a, b, n)
    /\ pc' = "done"
    /\ UNCHANGED <<args, tab, sol, count, spec_tab, h, k>>

NextQuad == call_lr \/ call_rr \/ call_mr \/ call_t \/ call_s

SpecQuad == InitQuad /\ [][NextQuad]_vars

\* ------------------------------------------------- fp
Header == <<"n", "xn", "|f(xn)|">>

\* lines 28-32: the locals, the header and the step-0 row, the mode
fp_init ==
    /\ pc = "call" /\ fn = "fp"
    /\ tab' = <<>>
    /\ sol' = x0
    /\ count' = 0
    /\ spec_tab' = <<Header, <<0, x0, fabs(fsub(Apply(m, x0), x0))>>>>
    /\ k' = 0
    /\ pc' = IF n = 0 THEN "while" ELSE "for"
    /\ UNCHANGED <<args, h, ret>>

\* line 33 with > for >=
fp_continue_strict(x) == Lt(lim, fabs(fsub(Apply(m, x), x)))

\* the while condition of line 33
fp_continue(x) == Ge(fabs(fsub(Apply(m, x), x)), lim)

\* the row appended after an update: [count, sol, abs(m(sol))]
fp_row(c, x) == <<c, x, fabs(Apply(m, x))>>

\* lines 33-37: one iteration of the unbounded loop
fp_while ==
    /\ pc = "while" /\ fn = "fp"
    /\ fp_continue(sol)
    /\ count < MaxSteps
    /\ tab' = Append(tab, <<sol, Apply(m, sol)>>)
    /\ sol' = Apply(m, sol)
    /\ count' = count + 1
    /\ spec_tab' = Append(spec_tab, fp_row(count', sol'))
    /\ UNCHANGED <<args, h, k, pc, ret>>

\* line 39 leaving the loop once the stop criterion of line 33 holds
fp_range_converged(kk, nn) == kk < nn /\ fp_continue(sol)

\* k in range(0, n), line 39
fp_range(kk, nn) == kk < nn

\* the step index the bounded loop writes: count, which it never changes
fp_for_index(c, kk) == c

\* lines 39-42: one iteration of the bounded loop
fp_for ==
    /\ pc = "for" /\ fn = "fp"
    /\ fp_range(k, n)
    /\ tab' = Append(tab, <<sol, Apply(m, sol)>>)
    /\ sol' = Apply(m, sol)
    /\ spec_tab' = Append(spec_tab, fp_row(fp_for_index(count, k), sol'))
    /\ k' = k + 1
    /\ UNCHANGED <<args, h, count, pc, ret>>

\* line 44, once the loop has ended
fp_return ==
    /\ fn = "fp"
    /\ \/ pc = "while" /\ ~fp_continue(sol)
       \/ pc = "for" /\ ~fp_range(k, n)
    /\ ret' = ReturnTable(spec_tab)
    /\ pc' = "done"
    /\ UNCHANGED <<args, tab, sol, count, spec_tab, h, k>>

\* ------------------------------------------------- nr
\* lines 60-65
nr_init ==
    /\ pc = "call" /\ fn = "nr"
    /\ tab' = <<>>
    /\ sol' = x0
    /\ count' = 0
    /\ spec_tab' = <<Header, <<0, x0, fabs(Apply(m, x0))>>>>
    /\ k' = 1
    /\ pc' = IF n = 0 THEN "while" ELSE "for"
    /\ UNCHANGED <<args, h, ret>>

\* the while condition of line 66
nr_continue(x) == Ge(fabs(Apply(m, x)), lim)

\* sol - m(sol)/dm(sol), where dm(sol) # 0
nr_update(x) == fsub(x, fdiv(Apply(m, x), Apply(dm, x)))

\* whether evaluating m(sol)/dm(sol) raises ZeroDivisionError
nr_faults(x) == IsZero(Apply(dm, x))

\* the ZeroDivisionError caught and the trace built so far returned
nr_fault_caught(tb) == ReturnTable(tb)

\* the ZeroDivisionError of lines 67 and 73 is not caught: the call ends with
\* it, and the trace built so far is not returned
nr_fault(tb) == Raise("ZeroDivisionError")

\* line 72 as range(1, n)
nr_range_short(kk, nn) == kk < nn

\* k in range(1, n+1), line 72
nr_range(kk, nn) == kk < nn + 1

\* lines 66-70: one iteration of the unbounded loop
nr_while ==
    /\ pc = "while" /\ fn = "nr"
    /\ nr_continue(sol)
    /\ count < MaxSteps
    /\ IF nr_faults(sol)
       THEN /\ ret' = nr_fault(spec_tab)
            /\ pc' = "done"
            /\ UNCHANGED <<tab, sol, count, spec_tab>>
       ELSE /\ tab' = Append(tab, <<sol, nr_update(sol)>>)
            /\ sol' = nr_update(sol)
            /\ count' = count + 1
            /\ spec_tab' = Append(spec_tab,
                                  <<count', sol', fabs(Apply(m, sol'))>>)
            /\ UNCHANGED <<pc, ret>>
    /\ UNCHANGED <<args, h, k>>

\* lines 72-75: one iteration of the bounded loop, k in range(1, n+1)
nr_for ==
    /\ pc = "for" /\ fn = "nr"
    /\ nr_range(k, n)
    /\ IF nr_faults(sol)
       THEN /\ ret' = nr_fault(spec_tab)
            /\ pc' = "done"
            /\ UNCHANGED <<tab, sol, spec_tab, k>>
       ELSE /\ tab' = Append(tab, <<sol, nr_update(sol)>>)
            /\ sol' = nr_update(sol)
            /\ spec_tab' = Append(spec_tab, <<k, sol', fabs(Apply(m, sol'))>>)
            /\ k' = k + 1
            /\ UNCHANGED <<pc, ret>>
    /\ UNCHANGED <<args, h, count>>

\* line 77, once the loop has ended
nr_return ==
    /\ fn = "nr"
    /\ \/ pc = "while" /\ ~nr_continue(sol)
       \/ pc = "for" /\ ~nr_range(k, n)
    /\ ret' = ReturnTable(spec_tab)
    /\ pc' = "done"
    /\ UNCHANGED <<args, tab, sol, count, spec_tab, h, k>>

\* ------------------------------------------------- e
\* lines 191-192
e_init ==
    /\ pc = "call" /\ fn = "e"
    /\ IF n = 0
       THEN /\ ret' = Raise("ZeroDivisionError")
            /\ pc' = "done"
            /\ UNCHANGED <<h, sol, k>>
       ELSE /\ h' = fdiv(fsub(b, a), I(n))
            /\ sol' = x0
            /\ k' = 0
            /\ pc' = "for"
            /\ UNCHANGED ret
    /\ UNCHANGED <<args, tab, count, spec_tab>>

\* sol + h * m(sol)
e_update(x, hh) == fadd(x, fmul(hh, Apply(m, x)))

\* line 193 as range(0, n+1)
e_range_long(kk, nn) == kk < nn + 1

\* k in range(0, n), line 193
e_range(kk, nn) == kk < nn

\* lines 193-194: one iteration
e_for ==
    /\ pc = "for" /\ fn = "e"
    /\ e_range(k, n)
    /\ sol' = e_update(sol, h)
    /\ k' = k + 1
    /\ UNCHANGED <<args, tab, count, spec_tab, h, pc, ret>>

\* line 195
e_return ==
    /\ pc = "for" /\ fn = "e"
    /\ ~e_range(k, n)
    /\ ret' = Return(sol)
    /\ pc' = "done"
    /\ UNCHANGED <<args, tab, sol, count, spec_tab, h, k>>

NextIter ==
    \/ fp_init \/ fp_while \/ fp_for \/ fp_return
    \/ nr_init \/ nr_while \/ nr_for \/ nr_return
    \/ e_init \/ e_for \/ e_return

SpecIter == InitIter /\ [][NextIter]_vars

\* ------------------------------------------------- claims: quadrature
QuadDone == pc = "done" /\ fn \in QuadRules /\ n > 0

\* C3 as stated: each of lr, rr, mr, t, s, for all a, b and n > 0, returns
\* exactly b - a for the constant integrand f(x) = 1.
C3_ConstantExact ==
    QuadDone /\ m = "one"
        => ret.kind = "float" /\ NumEq(ret.val, fsub(b, a))

\* C3 amended: for f(x) = 1, s with odd n returns the error string; every
\* other call (lr, rr, mr, t with n > 0, s with even n > 0) returns a float,
\* and that float is exactly b - a whenever no operation of the call rounded.
C3_ConstantExactUnlessRounded ==
    QuadDone /\ m = "one"
        => IF fn = "s" /\ n % 2 = 1
           THEN ret = ReturnStr(SimpsonError)
           ELSE /\ ret.kind = "float"
                /\ ~ret.val.ix => NumEq(ret.val, fsub(b, a))

\* the midpoint rule on f(x) = 1 over three or more subintervals of a
\* non-empty interval, computed without rounding
C3_Witness ==
    /\ QuadDone /\ m = "one" /\ fn = "mr"
    /\ n >= 3 /\ ~NumEq(a, b)
    /\ ret.kind = "float" /\ ~ret.val.ix

\* the sum of Simpson's rule over the pairs 1 .. i, from the samples
\* y_j = f(a + j*hh)
RECURSIVE SimpsonSum(_, _, _, _)
SimpsonSum(f, lo, hh, i) ==
    IF i = 0 THEN I(0)
    ELSE fadd(SimpsonSum(f, lo, hh, i - 1),
              fmul(fdiv(hh, I(3)),
                   fadd(fadd(Apply(f, fadd(lo, fmul(I(2 * i - 2), hh))),
                             fmul(I(4), Apply(f, fadd(lo, fmul(I(2 * i - 1), hh))))),
                        Apply(f, fadd(lo, fmul(I(2 * i), hh))))))

\* C4: s with odd n > 0 returns the error value and no number; with even
\* n > 0 it returns the sum of (h/3)*(y[2i-2] + 4*y[2i-1] + y[2i]) over
\* i = 1 .. n/2 and not the error value.
C4_SimpsonParity ==
    QuadDone /\ fn = "s"
        => IF n % 2 = 1
           THEN ret.kind = "str" /\ ret.msg = SimpsonError
           ELSE /\ ret.kind = "float"
                /\ NumEq(ret.val,
                         SimpsonSum(m, a, fdiv(fsub(b, a), I(n)), n \div 2))

\* s called with n = 3 on a non-constant integrand has returned the error
C4_Witness ==
    /\ QuadDone /\ fn = "s" /\ n = 3 /\ m = "sq" /\ ~NumEq(a, b)
    /\ ret.kind = "str"

\* (lr + rr) / 2 for the call's arguments
Average == fdiv(fadd(lr(m, a, b, n).val, rr(m, a, b, n).val), I(2))

\* C10 as stated: for every integrand, a, b and n > 0, t(m, a, b, n) equals
\* (lr(m, a, b, n) + rr(m, a, b, n)) / 2.
C10_TrapezoidIsAverage ==
    QuadDone /\ fn = "t" => NumEq(ret.val, Average)

\* C10 amended: t(m, a, b, n) equals (lr(m, a, b, n) + rr(m, a, b, n)) / 2
\* whenever no floating-point operation of the three calls and of the
\* averaging rounded.
C10_TrapezoidIsAverageUnlessRounded ==
    QuadDone /\ fn = "t" /\ ~ret.val.ix /\ ~Average.ix
        => NumEq(ret.val, Average)

\* t on f(x) = x*x over two or more subintervals, nothing rounded
C10_Witness ==
    /\ QuadDone /\ fn = "t" /\ m = "sq" /\ n >= 2 /\ ~NumEq(a, b)
    /\ ~ret.val.ix /\ ~Average.ix

\* ------------------------------------------------- claims: fp, nr, e
\* the table a call of fp or nr returned
Returned(f) == pc = "done" /\ fn = f /\ ret.kind = "table"

\* the approximation in row j of a table (row 1 is the header)
Approx(tb, j) == tb[j][2]

\* C1 as stated: nr in bounded mode (n > 0), no zero derivative met,
\* returns a table of exactly n + 1 rows.
C1_NrRowCount ==
    Returned("nr") /\ n > 0 => Len(ret.rows) = n + 1

\* C1 amended: nr in bounded mode (n > 0), no zero derivative met, returns a
\* table of exactly n + 2 rows: the header, the step-0 row of the initial
\* guess and n iteration rows with the indices 1 .. n.
C1_NrRowCountWithStep0 ==
    Returned("nr") /\ n > 0
        => /\ Len(ret.rows) = n + 2
           /\ ret.rows[1] = Header
           /\ ret.rows[2][1] = 0 /\ NumEq(Approx(ret.rows, 2), x0)
           /\ \A j \in 1..n : ret.rows[j + 2][1] = j

\* nr(x*x - 2, 2*x, x0 = 1, n = 5) has returned
C1_Witness ==
    /\ Returned("nr") /\ n = 5
    /\ m = "sqm2" /\ dm = "twox" /\ NumEq(x0, I(1))

\* C2: when fp in unbounded mode (n = 0) returns, the residual in the last
\* row is |m(x_k) - x_k| for that row's x_k and is below lim.
C2_FpLastResidual ==
    Returned("fp") /\ n = 0
        => LET last == ret.rows[Len(ret.rows)]
           IN  /\ NumEq(last[3], fabs(fsub(Apply(m, last[2]), last[2])))
               /\ Lt(last[3], lim)

\* C5 as stated: nr fails with a division by zero, and returns no table,
\* whenever dm(x_k) = 0 at any approximation of the run.
C5_NrFaultsOnAnyZero ==
    Returned("nr")
        => \A j \in 2..Len(ret.rows) : ~IsZero(Apply(dm, Approx(ret.rows, j)))

\* whether the loop computes an update from row j's approximation: in
\* bounded mode from x_0 .. x_(n-1), in unbounded mode from every x_k with
\* |m(x_k)| >= lim
NrUpdatesFrom(tb, j) ==
    IF n = 0 THEN Ge(fabs(Apply(m, Approx(tb, j))), lim) ELSE j - 2 < n

\* C5 amended: nr fails with a ZeroDivisionError, and returns no table,
\* whenever dm(x_k) = 0 at an approximation x_k the loop computes an update
\* from; dm is not evaluated at the approximation the loop ends on.
C5_NrFaultsOnUpdateFromZero ==
    fn = "nr"
        => /\ \A j \in 2..(Len(spec_tab) - 1) :
                  ~IsZero(Apply(dm, Approx(spec_tab, j)))
           /\ ret.kind = "table"
                  => \A j \in 2..Len(ret.rows) :
                         NrUpdatesFrom(ret.rows, j)
                             => ~IsZero(Apply(dm, Approx(ret.rows, j)))
           /\ pc = "done" /\ ret.kind # "table"
                  => /\ ret = Raise("ZeroDivisionError")
                     /\ IsZero(Apply(dm, sol))
                     /\ NrUpdatesFrom(spec_tab, Len(spec_tab))

\* nr has raised after at least one update, at an iterate with dm = 0
C5_Witness ==
    /\ pc = "done" /\ fn = "nr" /\ ret.kind = "raise"
    /\ Len(spec_tab) >= 3
    /\ IsZero(Apply(dm, sol))

\* C6: in every table fp or nr returns, the first column of the j-th data
\* row (j = 0, 1, 2, ...) is j.
C6_StepIndex ==
    Returned("fp") \/ Returned("nr")
        => \A j \in 2..Len(ret.rows) : ret.rows[j][1] = j - 2

\* m applied j times to x
RECURSIVE IterN(_, _, _)
IterN(f, x, j) == IF j = 0 THEN x ELSE Apply(f, IterN(f, x, j - 1))

\* C7: fp with n > 0 applies x := m(x) exactly n times whatever the
\* residuals are: it returns the header, the step-0 row and n further rows,
\* and row j's approximation is m applied j times to x0.
C7_FpBounded ==
    pc = "done" /\ fn = "fp" /\ n > 0
        => /\ ret.kind = "table"
           /\ Len(ret.rows) = n + 2
           /\ ret.rows[1] = Header
           /\ \A j \in 0..n : NumEq(Approx(ret.rows, j + 2), IterN(m, x0, j))
           /\ Len(tab) = n

\* fp(x*0.5, x0 = 1, n = 3, lim = 1): |m(x0) - x0| < lim at the initial guess
C7_Witness ==
    /\ Returned("fp") /\ n = 3 /\ m = "half"
    /\ NumEq(x0, I(1)) /\ NumEq(lim, I(1))
    /\ Lt(fabs(fsub(Apply(m, x0), x0)), lim)
    /\ ~NumEq(Approx(ret.rows, 5), x0)

\* the stop criterion: |m(x) - x| < lim for fp, |m(x)| < lim for nr
Stops(x) ==
    IF fn = "fp" THEN Lt(fabs(fsub(Apply(m, x), x)), lim)
    ELSE Lt(fabs(Apply(m, x)), lim)

RECURSIVE EulerN(_, _, _, _)
EulerN(f, y, hh, j) ==
    IF j = 0 THEN y
    ELSE LET prev == EulerN(f, y, hh, j - 1)
         IN  fadd(prev, fmul(hh, Apply(f, prev)))

\* C9: e with n > 0 starts from y_0 = x0, applies y := y + h*m(y) with
\* h = (b - a)/n exactly n times and returns y_n alone, a scalar.
C9_Euler ==
    pc = "done" /\ fn = "e" /\ n > 0
        => /\ ret.kind = "float" /\ ret.rows = <<>>
           /\ NumEq(h, fdiv(fsub(b, a), I(n)))
           /\ NumEq(ret.val, EulerN(m, x0, h, n))
           /\ k = n

\* e(y' = y, a = 0, b = 2, x0 = 1, n = 3) has returned
C9_Witness ==
    /\ pc = "done" /\ fn = "e" /\ n = 3 /\ m = "id"
    /\ NumEq(a, I(0)) /\ NumEq(b, I(2)) /\ NumEq(x0, I(1))
    /\ ret.kind = "float" /\ ~NumEq(ret.val, x0)

====
